---- MODULE Spec2Model ----
(***************************************************************************)
(* Degraded-mode availability tracking of the two user services.           *)
(*                                                                         *)
(* service = "node":   nodejsApp/src/app.js, class UserApp.  The tracker   *)
(*   is the field dbConnected; connectToDatabase is the startup connection *)
(*   attempt, checkDatabaseConnection the probe (periodic tick, /health,   *)
(*   /dashboard), and /register, /users, /users/:id the guarded handlers.  *)
(*   JavaScript runs one callback at a time, so every action below is the  *)
(*   code between two awaits.                                              *)
(* service = "spring": springApp, DatabaseAvailability.isDatabaseUp, the   *)
(*   guard UserService.ensureDatabaseUp and the controllers around it.     *)
(*   Spec follows one request at a time; ConcSpec adds a registerUser call *)
(*   running on a second request thread.                                   *)
(***************************************************************************)
EXTENDS Integers, FiniteSets, Sequences, Bags, TLC

VARIABLES
    service,              \* which of the two deployables this process is
    mongoClient,          \* this.mongoClient: "null" or "client"
    db,                   \* this.db: "null" or "db"
    dbConnected,          \* this.dbConnected
    dbConnectionStatus,   \* gauge database_connection_status
    connPc,               \* position of connectToDatabase()
    healthCheckInterval,  \* the setInterval of start() is scheduled
    server,               \* this.server: "none", "listening", "closed"
    stopPc,               \* position of stop()
    probes,               \* bag of checkDatabaseConnection() calls not yet consumed
    latePings,            \* unsettled admin().ping() promises of probes that timed out
    lateTimers,           \* unfired 2 s timers of probes whose ping settled first
    ops,                  \* bag of datastore operations awaited by handlers
    userRegistrations,    \* counter user_registrations_total
    lastNotice,           \* the last of 'lost' and 'restored' the probes logged
    sDbUp,                \* spring: the database accepts connections (environment)
    databaseAvailability, \* spring: the injected DatabaseAvailability, "bean" or "null"
    sUsers,               \* spring: the users table, a bag of emails
    sCounter,             \* spring: userRegistrationCounter
    sReq,                 \* spring: the request being handled and its position
    sOther,               \* spring: a registerUser call running on another thread
    sEmailUnique,         \* spring: the users table rejects a second row with an email
    output                \* what the last step emitted: a response, a notification, nothing

nodeVars == <<mongoClient, db, dbConnected, dbConnectionStatus, connPc,
              healthCheckInterval, server, stopPc, probes, latePings, lateTimers, ops,
              userRegistrations, lastNotice>>

springVars == <<sDbUp, databaseAvailability, sUsers, sCounter, sReq, sOther, sEmailUnique>>

vars == <<service, nodeVars, springVars, output>>

----------------------------------------------------------------------------
(* Bounds of the model *)

MaxProbes == 2          \* probe calls in flight or awaiting their caller
MaxLate == 1            \* left-over pings, and left-over timers, at a time
MaxOps == 1             \* datastore operations awaited at a time
MaxRegistrations == 1   \* cap of the registration counter
MaxSaves == 2           \* spring: cap of userRegistrationCounter

Emails == {"a@x", "b@x"}

----------------------------------------------------------------------------
(* Outputs *)

NoOutput == [kind |-> "none", route |-> "-", status |-> 0, info |-> "-"]

Log(msg) == [kind |-> "log", route |-> "-", status |-> 0, info |-> msg]

Resp(route, status, info) ==
    [kind |-> "http", route |-> route, status |-> status, info |-> info]

Unavailable == "Database unavailable. Please try again later."

\* a blocking call to the relational database made by the last step
Jdbc(call) == [kind |-> "jdbc", route |-> "-", status |-> 0, info |-> call]

----------------------------------------------------------------------------
(* Probe records *)

OnDemand == {"health", "dashboard"}
Origins == {"tick"} \cup OnDemand

\* a call awaiting Promise.race([ping, timeoutPromise])
ProbeRacing(origin) ==
    [st |-> "racing", origin |-> origin, ret |-> FALSE, via |-> "-"]

\* a call that returned ret to a handler which has not resumed yet; via is the
\* job it returned in: a "driver" callback, a "timer" callback, or the
\* handler's own "sync" code
ProbeReturned(origin, ret, via) ==
    [st |-> "returned", origin |-> origin, ret |-> ret, via |-> via]

Racing == {p \in BagToSet(probes) : p.st = "racing"}

Resuming == {p \in BagToSet(probes) : p.st = "returned"}

\* The continuation of an await is a microtask: it runs before the next
\* timer, request or other callback.  Only promises the driver settled in the
\* same callback can have their continuations queued ahead of it.
Quiescent == Resuming = {}

DriverJob == \A p \in Resuming : p.via = "driver"

RECURSIVE CopiesOf(_, _)
CopiesOf(S, B) ==
    IF S = {} THEN 0
    ELSE LET x == CHOOSE y \in S : TRUE
         IN  CopiesIn(x, B) + CopiesOf(S \ {x}, B)

RacingCount == CopiesOf(Racing, probes)

\* admin().ping() calls of probes, and 2 s timers of probes, outstanding
Pings == RacingCount + latePings

Timers == RacingCount + lateTimers

Put(B, x) == B (+) SetToBag({x})

Take(B, x) == B (-) SetToBag({x})

----------------------------------------------------------------------------
(* Node service: construction *)

SIdle == [handler |-> "-", pc |-> "idle", email |-> "-", dbConnected |-> FALSE,
          dbDown |-> FALSE, calls |-> {}]

SOtherIdle == [pc |-> "idle", email |-> "-"]

\* variant: the flag starts true, the rest as in the constructor
NodeInitOptimistic ==
    /\ service = "node"
    /\ sDbUp = FALSE
    /\ databaseAvailability = "null"
    /\ sUsers = EmptyBag
    /\ sCounter = 0
    /\ sReq = SIdle
    /\ sOther = SOtherIdle
    /\ sEmailUnique = FALSE
    /\ db = "null"
    /\ dbConnectionStatus = 0
    /\ healthCheckInterval = FALSE
    /\ server = "none"
    /\ stopPc = "idle"
    /\ probes = EmptyBag
    /\ latePings = 0
    /\ lateTimers = 0
    /\ ops = EmptyBag
    /\ userRegistrations = 0
    /\ lastNotice = "none"
    /\ dbConnected = TRUE
    /\ mongoClient = "client"
    /\ connPc = "connect"
    /\ output = NoOutput

NodeInit ==
    /\ service = "node"
    /\ sDbUp = FALSE
    /\ databaseAvailability = "null"
    /\ sUsers = EmptyBag
    /\ sCounter = 0
    /\ sReq = SIdle
    /\ sOther = SOtherIdle
    /\ sEmailUnique = FALSE
    /\ db = "null"
    /\ dbConnectionStatus = 0
    /\ healthCheckInterval = FALSE
    /\ server = "none"
    /\ stopPc = "idle"
    /\ probes = EmptyBag
    /\ latePings = 0
    /\ lateTimers = 0
    /\ ops = EmptyBag
    /\ userRegistrations = 0
    /\ lastNotice = "none"
    /\ dbConnected = FALSE
    /\ \/ /\ mongoClient = "client"     \* new MongoClient() built, connect() awaited
          /\ connPc = "connect"
          /\ output = NoOutput
       \/ /\ mongoClient = "null"       \* new MongoClient() threw on the URL: catch
          /\ connPc = "done"
          /\ output = Log("connfailed")

(* Node service: start() and stop() *)

Start ==
    /\ service = "node"
    /\ Quiescent
    /\ server = "none"
    /\ stopPc = "idle"
    /\ server' = "listening"
    /\ healthCheckInterval' = TRUE
    /\ output' = NoOutput
    /\ UNCHANGED <<service, springVars, mongoClient, db, dbConnected, dbConnectionStatus,
                   connPc, stopPc, probes, latePings, lateTimers, ops, userRegistrations,
                   lastNotice>>

CloseServer == IF server = "listening" THEN "closed" ELSE server

StopBegin ==
    /\ service = "node"
    /\ Quiescent
    /\ stopPc = "idle"
    /\ healthCheckInterval' = FALSE                  \* clearInterval
    /\ IF mongoClient = "client"
       THEN stopPc' = "closing" /\ server' = server  \* await mongoClient.close()
       ELSE stopPc' = "done" /\ server' = CloseServer
    /\ output' = NoOutput
    /\ UNCHANGED <<service, springVars, mongoClient, db, dbConnected, dbConnectionStatus,
                   connPc, probes, latePings, lateTimers, ops, userRegistrations,
                   lastNotice>>

StopFinish ==
    /\ service = "node"
    /\ Quiescent
    /\ stopPc = "closing"
    /\ stopPc' = "done"
    /\ server' = CloseServer
    /\ output' = NoOutput
    /\ UNCHANGED <<service, springVars, mongoClient, db, dbConnected, dbConnectionStatus,
                   connPc, healthCheckInterval, probes, latePings, lateTimers, ops,
                   userRegistrations, lastNotice>>

\* a request reaches a handler only while the server listens
Accepting == service = "node" /\ server = "listening" /\ Quiescent

----------------------------------------------------------------------------
(* Node service: connectToDatabase() *)

ConnectSucceeded ==
    /\ db' = "db"
    /\ dbConnected' = TRUE
    /\ dbConnectionStatus' = 1
    /\ output' = Log("connected")

\* variant: a failed startup attempt does not overwrite the flag
ConnectFailedKeepsFlag ==
    /\ output' = Log("connfailed")
    /\ UNCHANGED <<db, dbConnected, dbConnectionStatus>>

ConnectFailed ==
    /\ dbConnected' = FALSE
    /\ dbConnectionStatus' = 0
    /\ output' = Log("connfailed")
    /\ UNCHANGED db

\* await this.mongoClient.connect() settles
ConnectSettle(ok) ==
    /\ service = "node"
    /\ DriverJob
    /\ connPc = "connect"
    /\ IF ok
       THEN /\ connPc' = "ping"                      \* admin().ping() issued
            /\ output' = NoOutput
            /\ UNCHANGED <<db, dbConnected, dbConnectionStatus>>
       ELSE /\ connPc' = "done"
            /\ ConnectFailed
    /\ UNCHANGED <<service, springVars, mongoClient, healthCheckInterval, server, stopPc,
                   probes, latePings, lateTimers, ops, userRegistrations, lastNotice>>

\* await this.mongoClient.db().admin().ping() settles
ConnectPingSettle(ok) ==
    /\ service = "node"
    /\ DriverJob
    /\ connPc = "ping"
    /\ connPc' = "done"
    /\ IF ok THEN ConnectSucceeded ELSE ConnectFailed
    /\ UNCHANGED <<service, springVars, mongoClient, healthCheckInterval, server, stopPc,
                   probes, latePings, lateTimers, ops, userRegistrations, lastNotice>>

----------------------------------------------------------------------------
(* Node service: checkDatabaseConnection() *)

\* variant: the success path without the dbConnectionStatus.set(1) of line 290
ReportSuccessGaugeStale ==
    IF ~dbConnected
    THEN /\ dbConnected' = TRUE
         /\ UNCHANGED dbConnectionStatus
         /\ output' = Log("restored")
         /\ lastNotice' = "restored"
    ELSE /\ UNCHANGED <<dbConnected, dbConnectionStatus, lastNotice>>
         /\ output' = NoOutput

\* lines 288-292: the ping won the race
ReportSuccess ==
    IF ~dbConnected
    THEN /\ dbConnected' = TRUE
         /\ dbConnectionStatus' = 1
         /\ output' = Log("restored")
         /\ lastNotice' = "restored"
    ELSE /\ UNCHANGED <<dbConnected, dbConnectionStatus, lastNotice>>
         /\ output' = NoOutput

\* variant: the catch block without the `if (this.dbConnected)` of line 297
ReportFailureUnconditional ==
    /\ dbConnected' = FALSE
    /\ dbConnectionStatus' = 0
    /\ output' = Log("lost")
    /\ lastNotice' = "lost"

\* lines 296-302: the catch block
ReportFailure ==
    IF dbConnected
    THEN /\ dbConnected' = FALSE
         /\ dbConnectionStatus' = 0
         /\ output' = Log("lost")
         /\ lastNotice' = "lost"
    ELSE /\ UNCHANGED <<dbConnected, dbConnectionStatus, lastNotice>>
         /\ output' = NoOutput

\* what becomes of the call once it has returned this.dbConnected: a tick
\* drops the value, a handler awaits it and resumes in a later job
Returned(B, origin, via) ==
    IF origin = "tick" THEN B ELSE Put(B, ProbeReturned(origin, dbConnected', via))

\* the call up to its first await
StartProbe(origin) ==
    /\ Quiescent
    /\ BagCardinality(probes) < MaxProbes
    /\ IF mongoClient = "client"
       THEN \* setTimeout(..., 2000) and admin().ping(), raced
            /\ probes' = Put(probes, ProbeRacing(origin))
            /\ output' = NoOutput
            /\ UNCHANGED <<dbConnected, dbConnectionStatus, lastNotice>>
       ELSE /\ ReportFailure                         \* throw 'No MongoDB client'
            /\ probes' = Returned(probes, origin, "sync")
    /\ UNCHANGED <<latePings, lateTimers>>

ProbeOutcomes == {"ok", "error", "timeout"}

\* the ping settled first: the timer stays scheduled, it is never cleared
LeaveTimer ==
    /\ lateTimers < MaxLate
    /\ lateTimers' = lateTimers + 1
    /\ latePings' = latePings

\* the timer fired first: the ping stays in flight, it is never cancelled
LeavePing ==
    /\ latePings < MaxLate
    /\ latePings' = latePings + 1
    /\ lateTimers' = lateTimers

\* variant: a race lost to the 2 s timer leaves the flag as it was
ProbeSettleTimeoutIgnored(p, outcome) ==
    /\ service = "node"
    /\ p \in Racing
    /\ CASE outcome = "ok"      -> DriverJob /\ ReportSuccess /\ LeaveTimer
         [] outcome = "error"   -> DriverJob /\ ReportFailure /\ LeaveTimer
         [] outcome = "timeout" -> /\ Quiescent
                                   /\ UNCHANGED <<dbConnected, dbConnectionStatus, lastNotice>>
                                   /\ output' = NoOutput
                                   /\ LeavePing
    /\ probes' = Returned(Take(probes, p), p.origin,
                          IF outcome = "timeout" THEN "timer" ELSE "driver")
    /\ UNCHANGED <<service, springVars, mongoClient, db, connPc, healthCheckInterval, server,
                   stopPc, ops, userRegistrations>>

\* Promise.race settles: the ping resolved, the ping rejected, or the timer fired
ProbeSettle(p, outcome) ==
    /\ service = "node"
    /\ p \in Racing
    /\ CASE outcome = "ok"      -> DriverJob /\ ReportSuccess /\ LeaveTimer
         [] outcome = "error"   -> DriverJob /\ ReportFailure /\ LeaveTimer
         [] outcome = "timeout" -> Quiescent /\ ReportFailure /\ LeavePing
    /\ probes' = Returned(Take(probes, p), p.origin,
                          IF outcome = "timeout" THEN "timer" ELSE "driver")
    /\ UNCHANGED <<service, springVars, mongoClient, db, connPc, healthCheckInterval, server,
                   stopPc, ops, userRegistrations>>

\* variant: the left-over ping still reports its success to the flag
LatePingReports ==
    /\ service = "node"
    /\ DriverJob
    /\ latePings > 0
    /\ latePings' = latePings - 1
    /\ ReportSuccess
    /\ UNCHANGED <<service, springVars, mongoClient, db, connPc, healthCheckInterval, server,
                   stopPc, probes, lateTimers, ops, userRegistrations>>

\* the ping of a probe that already timed out settles: nobody awaits it
LatePing ==
    /\ service = "node"
    /\ DriverJob
    /\ latePings > 0
    /\ latePings' = latePings - 1
    /\ output' = NoOutput
    /\ UNCHANGED <<service, springVars, mongoClient, db, dbConnected, dbConnectionStatus,
                   connPc, healthCheckInterval, server, stopPc, probes, lateTimers, ops,
                   userRegistrations, lastNotice>>

\* the timer of a probe whose ping already settled fires: the race is over
LateTimer ==
    /\ service = "node"
    /\ Quiescent
    /\ lateTimers > 0
    /\ lateTimers' = lateTimers - 1
    /\ output' = NoOutput
    /\ UNCHANGED <<service, springVars, mongoClient, db, dbConnected, dbConnectionStatus,
                   connPc, healthCheckInterval, server, stopPc, probes, latePings, ops,
                   userRegistrations, lastNotice>>

\* variant: the interval callback probes only while the flag is true
TickOnlyWhileUp ==
    /\ service = "node"
    /\ healthCheckInterval
    /\ dbConnected
    /\ StartProbe("tick")
    /\ UNCHANGED <<service, springVars, mongoClient, db, connPc, healthCheckInterval, server,
                   stopPc, ops, userRegistrations>>

\* the setInterval callback of start()
Tick ==
    /\ service = "node"
    /\ healthCheckInterval
    /\ StartProbe("tick")
    /\ UNCHANGED <<service, springVars, mongoClient, db, connPc, healthCheckInterval, server,
                   stopPc, ops, userRegistrations>>

----------------------------------------------------------------------------
(* Node service: status routes *)

\* GET /health and GET /dashboard up to await this.checkDatabaseConnection()
StatusRequest(origin) ==
    /\ Accepting
    /\ origin \in OnDemand
    /\ StartProbe(origin)
    /\ UNCHANGED <<service, springVars, mongoClient, db, connPc, healthCheckInterval, server,
                   stopPc, ops, userRegistrations>>

HealthBody == IF dbConnected THEN "connected" ELSE "disconnected"

DashboardBody == IF dbConnected THEN "Connected" ELSE "Disconnected"

\* GET /health after the await: reads this.dbConnected
HealthRespond(p) ==
    /\ service = "node"
    /\ p \in BagToSet(probes)
    /\ p.st = "returned"
    /\ p.origin = "health"
    /\ probes' = Take(probes, p)
    /\ output' = Resp("/health", 200, HealthBody)
    /\ UNCHANGED <<service, springVars, mongoClient, db, dbConnected, dbConnectionStatus,
                   connPc, healthCheckInterval, server, stopPc, latePings, lateTimers,
                   ops, userRegistrations, lastNotice>>

\* GET /dashboard after the await
DashboardRespond(p) ==
    /\ service = "node"
    /\ p \in BagToSet(probes)
    /\ p.st = "returned"
    /\ p.origin = "dashboard"
    /\ probes' = Take(probes, p)
    /\ output' = Resp("/dashboard", 200, DashboardBody)
    /\ UNCHANGED <<service, springVars, mongoClient, db, dbConnected, dbConnectionStatus,
                   connPc, healthCheckInterval, server, stopPc, latePings, lateTimers,
                   ops, userRegistrations, lastNotice>>

\* GET /: the cached status
RootPage ==
    /\ Accepting
    /\ output' = Resp("/", 200, HealthBody)
    /\ UNCHANGED <<service, springVars, nodeVars>>

\* GET /metrics: the gauge as registered
Scrape ==
    /\ Accepting
    /\ output' = Resp("/metrics", 200, IF dbConnectionStatus = 1 THEN "1" ELSE "0")
    /\ UNCHANGED <<service, springVars, nodeVars>>

----------------------------------------------------------------------------
(* Node service: guarded routes *)

Op(kind, html) == [kind |-> kind, html |-> html]

\* this.db.collection('users') on a null this.db throws a TypeError
CanIssue == db = "db"

\* variant: the availability check made before the validation of the body
RegisterAvailabilityFirst(hasName, hasEmail) ==
    /\ Accepting
    /\ userRegistrations < MaxRegistrations
    /\ IF ~dbConnected
       THEN output' = Resp("/register", 503, Unavailable) /\ ops' = ops
       ELSE IF ~(hasName /\ hasEmail)
       THEN output' = Resp("/register", 400, "Name and email are required") /\ ops' = ops
       ELSE IF ~CanIssue
       THEN output' = Resp("/register", 500, "Registration failed") /\ ops' = ops
       ELSE /\ BagCardinality(ops) < MaxOps
            /\ ops' = Put(ops, Op("insertOne", FALSE))
            /\ output' = NoOutput
    /\ UNCHANGED <<service, springVars, mongoClient, db, dbConnected, dbConnectionStatus,
                   connPc, healthCheckInterval, server, stopPc, probes, latePings,
                   lateTimers, userRegistrations, lastNotice>>

\* POST /register up to await insertOne(user)
Register(hasName, hasEmail) ==
    /\ Accepting
    /\ userRegistrations < MaxRegistrations
    /\ IF ~(hasName /\ hasEmail)
       THEN output' = Resp("/register", 400, "Name and email are required") /\ ops' = ops
       ELSE IF ~dbConnected
       THEN output' = Resp("/register", 503, Unavailable) /\ ops' = ops
       ELSE IF ~CanIssue
       THEN output' = Resp("/register", 500, "Registration failed") /\ ops' = ops
       ELSE /\ BagCardinality(ops) < MaxOps
            /\ ops' = Put(ops, Op("insertOne", FALSE))
            /\ output' = NoOutput
    /\ UNCHANGED <<service, springVars, mongoClient, db, dbConnected, dbConnectionStatus,
                   connPc, healthCheckInterval, server, stopPc, probes, latePings,
                   lateTimers, userRegistrations, lastNotice>>

\* variant: the counter is incremented whatever insertOne answers
InsertSettleCounting(ok) ==
    /\ service = "node"
    /\ DriverJob
    /\ BagIn(Op("insertOne", FALSE), ops)
    /\ ops' = Take(ops, Op("insertOne", FALSE))
    /\ userRegistrations' = userRegistrations + 1
    /\ output' = IF ok THEN Resp("/register", 200, "success")
                       ELSE Resp("/register", 500, "Registration failed")
    /\ UNCHANGED <<service, springVars, mongoClient, db, dbConnected, dbConnectionStatus,
                   connPc, healthCheckInterval, server, stopPc, probes, latePings,
                   lateTimers, lastNotice>>

\* insertOne settles: the rest of the try block, or the catch block
InsertSettle(ok) ==
    /\ service = "node"
    /\ DriverJob
    /\ BagIn(Op("insertOne", FALSE), ops)
    /\ ops' = Take(ops, Op("insertOne", FALSE))
    /\ IF ok
       THEN /\ userRegistrations' = userRegistrations + 1
            /\ output' = Resp("/register", 200, "success")
       ELSE /\ userRegistrations' = userRegistrations
            /\ output' = Resp("/register", 500, "Registration failed")
    /\ UNCHANGED <<service, springVars, mongoClient, db, dbConnected, dbConnectionStatus,
                   connPc, healthCheckInterval, server, stopPc, probes, latePings,
                   lateTimers, lastNotice>>

\* GET /users up to await find({}).toArray(); html: Accept includes text/html
Users(html) ==
    /\ Accepting
    /\ IF ~dbConnected
       THEN /\ output' = IF html THEN Resp("/users", 200, "Database unavailable")
                                 ELSE Resp("/users", 503, Unavailable)
            /\ ops' = ops
       ELSE IF ~CanIssue
       THEN /\ output' = IF html THEN Resp("/users", 200, "Failed to fetch users")
                                 ELSE Resp("/users", 500, "Failed to fetch users")
            /\ ops' = ops
       ELSE /\ BagCardinality(ops) < MaxOps
            /\ ops' = Put(ops, Op("find", html))
            /\ output' = NoOutput
    /\ UNCHANGED <<service, springVars, mongoClient, db, dbConnected, dbConnectionStatus,
                   connPc, healthCheckInterval, server, stopPc, probes, latePings,
                   lateTimers, userRegistrations, lastNotice>>

FindSettle(o, ok) ==
    /\ service = "node"
    /\ DriverJob
    /\ o \in BagToSet(ops)
    /\ o.kind = "find"
    /\ ops' = Take(ops, o)
    /\ output' = IF ok THEN Resp("/users", 200, "users")
                 ELSE IF o.html THEN Resp("/users", 200, "Failed to fetch users")
                 ELSE Resp("/users", 500, "Failed to fetch users")
    /\ UNCHANGED <<service, springVars, mongoClient, db, dbConnected, dbConnectionStatus,
                   connPc, healthCheckInterval, server, stopPc, probes, latePings,
                   lateTimers, userRegistrations, lastNotice>>

\* the handler without its availability check
DeleteUnguarded(validId) ==
    /\ Accepting
    /\ IF ~CanIssue \/ ~validId
       THEN output' = Resp("/users/:id", 500, "Failed to delete user") /\ ops' = ops
       ELSE /\ BagCardinality(ops) < MaxOps
            /\ ops' = Put(ops, Op("deleteOne", FALSE))
            /\ output' = NoOutput
    /\ UNCHANGED <<service, springVars, mongoClient, db, dbConnected, dbConnectionStatus,
                   connPc, healthCheckInterval, server, stopPc, probes, latePings,
                   lateTimers, userRegistrations, lastNotice>>

\* DELETE /users/:id up to await deleteOne(...); validId: new ObjectId(id) accepts id
Delete(validId) ==
    /\ Accepting
    /\ IF ~dbConnected
       THEN output' = Resp("/users/:id", 503, Unavailable) /\ ops' = ops
       ELSE IF ~CanIssue \/ ~validId
       THEN output' = Resp("/users/:id", 500, "Failed to delete user") /\ ops' = ops
       ELSE /\ BagCardinality(ops) < MaxOps
            /\ ops' = Put(ops, Op("deleteOne", FALSE))
            /\ output' = NoOutput
    /\ UNCHANGED <<service, springVars, mongoClient, db, dbConnected, dbConnectionStatus,
                   connPc, healthCheckInterval, server, stopPc, probes, latePings,
                   lateTimers, userRegistrations, lastNotice>>

DeleteResults == {"deleted", "absent", "error"}

\* variant: a rejected deleteOne is reported to the flag and answered 503
DeleteSettleReporting(result) ==
    /\ service = "node"
    /\ DriverJob
    /\ BagIn(Op("deleteOne", FALSE), ops)
    /\ ops' = Take(ops, Op("deleteOne", FALSE))
    /\ output' = CASE result = "deleted" -> Resp("/users/:id", 200, "User deleted successfully")
                   [] result = "absent"  -> Resp("/users/:id", 404, "User not found")
                   [] result = "error"   -> Resp("/users/:id", 503, Unavailable)
    /\ dbConnected' = IF result = "error" THEN FALSE ELSE dbConnected
    /\ dbConnectionStatus' = IF result = "error" THEN 0 ELSE dbConnectionStatus
    /\ UNCHANGED <<service, springVars, mongoClient, db, connPc, healthCheckInterval,
                   server, stopPc, probes, latePings, lateTimers, userRegistrations,
                   lastNotice>>

DeleteSettle(result) ==
    /\ service = "node"
    /\ DriverJob
    /\ BagIn(Op("deleteOne", FALSE), ops)
    /\ ops' = Take(ops, Op("deleteOne", FALSE))
    /\ output' = CASE result = "deleted" -> Resp("/users/:id", 200, "User deleted successfully")
                   [] result = "absent"  -> Resp("/users/:id", 404, "User not found")
                   [] result = "error"   -> Resp("/users/:id", 500, "Failed to delete user")
    /\ UNCHANGED <<service, springVars, mongoClient, db, dbConnected, dbConnectionStatus,
                   connPc, healthCheckInterval, server, stopPc, probes, latePings,
                   lateTimers, userRegistrations, lastNotice>>

----------------------------------------------------------------------------
(* Spring service.  One request is followed through its blocking calls;   *)
(* the database may come and go between any two of them.                   *)

SpringInit ==
    /\ service = "spring"
    /\ sDbUp \in BOOLEAN
    /\ databaseAvailability \in {"bean", "null"}    \* @ConditionalOnBean, required = false
    /\ sUsers = EmptyBag
    /\ sCounter = 0
    /\ sReq = SIdle
    /\ sOther = SOtherIdle
    /\ sEmailUnique \in BOOLEAN                     \* entity User is not part of the sources
    /\ output = NoOutput
    /\ mongoClient = "null"
    /\ db = "null"
    /\ dbConnected = FALSE
    /\ dbConnectionStatus = 0
    /\ connPc = "done"
    /\ healthCheckInterval = FALSE
    /\ server = "none"
    /\ stopPc = "idle"
    /\ probes = EmptyBag
    /\ latePings = 0
    /\ lateTimers = 0
    /\ ops = EmptyBag
    /\ userRegistrations = 0
    /\ lastNotice = "none"

\* what a step of a request leaves alone
SFrame ==
    UNCHANGED <<service, nodeVars, sDbUp, databaseAvailability, sOther, sEmailUnique>>

SStore == UNCHANGED <<sUsers, sCounter>>

\* the database becomes reachable or unreachable
DbToggle ==
    /\ service = "spring"
    /\ sDbUp' = ~sDbUp
    /\ output' = NoOutput
    /\ UNCHANGED <<service, nodeVars, databaseAvailability, sReq, sOther, sEmailUnique>>
    /\ SStore

\* DatabaseAvailability.isDatabaseUp(): dataSource.getConnection() succeeded
IsDatabaseUp == sDbUp

\* the controller methods followed, and findByEmail, which no controller calls
SHandlers == {"metrics", "dashboard", "webHealth", "restRegister", "restList", "restGet",
              "restDelete", "restStats", "findByEmail", "webIndex", "webRegister",
              "webDelete"}

Registering == {"restRegister", "webRegister"}

\* the UserService method a handler calls
ServiceOp(handler) ==
    CASE handler \in Registering                 -> "registerUser"
      [] handler \in {"restDelete", "webDelete"} -> "deleteUser"
      [] handler = "restGet"                     -> "findById"
      [] handler = "restStats"                   -> "getTotalUserCount"
      [] handler = "findByEmail"                 -> "findByEmail"
      [] OTHER                                   -> "getAllUsers"

\* the email of the submitted user, or the email of the user an id names
ArgsOf(handler) ==
    IF ServiceOp(handler) \in {"registerUser", "deleteUser", "findById", "findByEmail"}
    THEN Emails ELSE {"-"}

FirstPc(handler) ==
    CASE handler = "dashboard"   -> "probe"     \* checkDatabaseConnection()
      [] handler = "webHealth"   -> "check"     \* databaseAvailability != null && ...
      [] handler = "webIndex"    -> "check"
      [] handler = "webRegister" -> "check"
      [] OTHER                   -> "ensure"    \* the call of the UserService method

\* a request enters its handler; bindingResult.hasErrors() ends a form
\* submission before any check
SBegin(handler, email, valid) ==
    /\ service = "spring"
    /\ sReq.pc = "idle"
    /\ handler \in Registering => sCounter < MaxSaves
    /\ sReq' = [SIdle EXCEPT !.handler = handler,
                             !.email = email,
                             !.pc = IF valid THEN FirstPc(handler) ELSE "invalid"]
    /\ output' = NoOutput
    /\ SFrame
    /\ SStore

\* the call enters the UserService method
Entered == [sReq EXCEPT !.calls = @ \cup {"UserService." \o ServiceOp(sReq.handler)}]

\* variant: deleteUser without its ensureDatabaseUp() call
SEnsureDatabaseUpNotInDelete ==
    /\ service = "spring"
    /\ sReq.pc = "ensure"
    /\ IF databaseAvailability = "null" \/ ServiceOp(sReq.handler) = "deleteUser"
       THEN /\ sReq' = [Entered EXCEPT !.pc = "repository"]
            /\ output' = NoOutput
       ELSE /\ sReq' = [Entered EXCEPT !.pc = IF IsDatabaseUp THEN "repository"
                                                         ELSE "unavailable"]
            /\ output' = Jdbc("getConnection")
    /\ SFrame
    /\ SStore

\* variant: the guard answers from a remembered value and opens no connection
SEnsureDatabaseUpCached ==
    /\ service = "spring"
    /\ sReq.pc = "ensure"
    /\ sReq' = [Entered EXCEPT !.pc = IF databaseAvailability = "null" \/ IsDatabaseUp
                                      THEN "repository" ELSE "unavailable"]
    /\ output' = NoOutput
    /\ SFrame
    /\ SStore

\* UserService.ensureDatabaseUp(), the first statement of every operation
SEnsureDatabaseUp ==
    /\ service = "spring"
    /\ sReq.pc = "ensure"
    /\ IF databaseAvailability = "null"
       THEN /\ sReq' = [Entered EXCEPT !.pc = "repository"]
            /\ output' = NoOutput
       ELSE /\ sReq' = [Entered EXCEPT !.pc = IF IsDatabaseUp THEN "repository"
                                                         ELSE "unavailable"]
            /\ output' = Jdbc("getConnection")
    /\ SFrame
    /\ SStore

\* the first UserRepository method an operation calls behind the guard
FirstCall(op) ==
    CASE op = "registerUser"      -> "existsByEmail"
      [] op = "deleteUser"        -> "existsById"
      [] op = "findById"          -> "findById"
      [] op = "findByEmail"       -> "findByEmail"
      [] op = "getTotalUserCount" -> "countTotalUsers"
      [] OTHER                    -> "findAll"

\* variant: registerUser saves without looking at existsByEmail's answer
AfterFirstCallAlwaysSaves(op, found) ==
    CASE op = "registerUser"                -> "save"
      [] op = "deleteUser"                  -> IF found THEN "deleteById" ELSE "absent"
      [] op \in {"findById", "findByEmail"} -> IF found THEN "result" ELSE "absent"
      [] OTHER                              -> "result"

\* where the operation goes on what that call returned
AfterFirstCall(op, found) ==
    CASE op = "registerUser"                -> IF found THEN "conflict" ELSE "save"
      [] op = "deleteUser"                  -> IF found THEN "deleteById" ELSE "absent"
      [] op \in {"findById", "findByEmail"} -> IF found THEN "result" ELSE "absent"
      [] OTHER                              -> "result"

\* the UserRepository call behind the guard; the existsByEmail of
\* registerUser is outside its try block
SRepository ==
    /\ service = "spring"
    /\ sReq.pc = "repository"
    /\ LET op == ServiceOp(sReq.handler)
       IN /\ output' = Jdbc(FirstCall(op))
          /\ sReq' = [sReq EXCEPT
                        !.calls = @ \cup {FirstCall(op)},
                        !.pc = IF sDbUp THEN AfterFirstCall(op, BagIn(sReq.email, sUsers))
                                        ELSE "dataAccess"]
    /\ SFrame
    /\ SStore

\* the INSERT of save(user) goes through: the database is reachable and the
\* table, if it holds emails unique, has no row with this one
SAccepts(email) == sDbUp /\ ~(sEmailUnique /\ BagIn(email, sUsers))

\* variant: the counter is incremented before userRepository.save(user)
SSaveCountsFirst ==
    /\ service = "spring"
    /\ sReq.pc = "save"
    /\ output' = Jdbc("save")
    /\ sCounter' = sCounter + 1
    /\ IF SAccepts(sReq.email)
       THEN /\ sUsers' = sUsers (+) SetToBag({sReq.email})
            /\ sReq' = [sReq EXCEPT !.calls = @ \cup {"save"}, !.pc = "result"]
       ELSE /\ UNCHANGED sUsers
            /\ sReq' = [sReq EXCEPT !.calls = @ \cup {"save"}, !.pc = "saveFailed"]
    /\ SFrame

\* UserService.registerUser: userRepository.save(user) and the counter in
\* the try block; a failure is rethrown as RuntimeException
SSave ==
    /\ service = "spring"
    /\ sReq.pc = "save"
    /\ output' = Jdbc("save")
    /\ IF SAccepts(sReq.email)
       THEN /\ sUsers' = sUsers (+) SetToBag({sReq.email})
            /\ sCounter' = sCounter + 1
            /\ sReq' = [sReq EXCEPT !.calls = @ \cup {"save"}, !.pc = "result"]
       ELSE /\ SStore
            /\ sReq' = [sReq EXCEPT !.calls = @ \cup {"save"}, !.pc = "saveFailed"]
    /\ SFrame

\* UserService.deleteUser: userRepository.deleteById(id)
SDeleteById ==
    /\ service = "spring"
    /\ sReq.pc = "deleteById"
    /\ output' = Jdbc("deleteById")
    /\ IF sDbUp
       THEN /\ sUsers' = sUsers (-) SetToBag({sReq.email})
            /\ sReq' = [sReq EXCEPT !.calls = @ \cup {"deleteById"}, !.pc = "result"]
       ELSE /\ UNCHANGED sUsers
            /\ sReq' = [sReq EXCEPT !.calls = @ \cup {"deleteById"}, !.pc = "dataAccess"]
    /\ UNCHANGED sCounter
    /\ SFrame

\* SystemDashboardController.checkDatabaseConnection()
SDashboardProbe ==
    /\ service = "spring"
    /\ sReq.pc = "probe"
    /\ sReq' = [sReq EXCEPT !.pc = "ensure", !.dbConnected = sDbUp]
    /\ output' = Jdbc("getConnection")
    /\ SFrame
    /\ SStore

\* variant: a missing bean counts as an available database, as in UserService
AvailabilityUpWhenMissing == databaseAvailability = "null" \/ IsDatabaseUp

\* databaseAvailability != null && databaseAvailability.isDatabaseUp()
AvailabilityUp == databaseAvailability = "bean" /\ IsDatabaseUp

\* a controller's own check: isDatabaseUp() is called when the bean is there
ControllerCheck == IF databaseAvailability = "bean" THEN Jdbc("getConnection") ELSE NoOutput

\* UserWebController.healthCheck(): the check of line 313
SWebHealthCheck ==
    /\ service = "spring"
    /\ sReq.handler = "webHealth"
    /\ sReq.pc = "check"
    /\ sReq' = [sReq EXCEPT !.pc = "result", !.dbConnected = AvailabilityUp]
    /\ output' = ControllerCheck
    /\ SFrame
    /\ SStore

\* UserWebController.showRegistrationForm(): the check of line 160
SIndexCheck ==
    /\ service = "spring"
    /\ sReq.handler = "webIndex"
    /\ sReq.pc = "check"
    /\ sReq' = [sReq EXCEPT !.pc = IF AvailabilityUp THEN "ensure" ELSE "down"]
    /\ output' = ControllerCheck
    /\ SFrame
    /\ SStore

\* variant: the form handler calls the service without asking first
SRegisterCheckSkipped ==
    /\ service = "spring"
    /\ sReq.handler = "webRegister"
    /\ sReq.pc = "check"
    /\ sReq' = [sReq EXCEPT !.pc = "ensure"]
    /\ output' = NoOutput
    /\ SFrame
    /\ SStore

\* UserWebController.registerUser(): the check of line 231
SRegisterCheck ==
    /\ service = "spring"
    /\ sReq.handler = "webRegister"
    /\ sReq.pc = "check"
    /\ sReq' = [sReq EXCEPT !.pc = IF databaseAvailability = "bean" /\ ~IsDatabaseUp
                                   THEN "refused" ELSE "ensure"]
    /\ output' = ControllerCheck
    /\ SFrame
    /\ SStore

\* UserWebController.showRegistrationForm(): the users or the dbDown
\* attribute, then addDashboardData(model) with its own check (line 203)
SDashboardData ==
    /\ service = "spring"
    /\ sReq.handler = "webIndex"
    /\ sReq.pc \in {"result", "unavailable", "down"}
    /\ sReq' = [sReq EXCEPT !.pc = "page",
                            !.dbDown = sReq.pc # "result",
                            !.dbConnected = AvailabilityUp]
    /\ output' = ControllerCheck
    /\ SFrame
    /\ SStore

SRoute(handler) ==
    CASE handler = "metrics"      -> "/metrics"
      [] handler = "dashboard"    -> "/dashboard"
      [] handler = "webHealth"    -> "/health"
      [] handler = "restRegister" -> "/api/users"
      [] handler = "restList"     -> "/api/users"
      [] handler = "restGet"      -> "/api/users/{id}"
      [] handler = "restDelete"   -> "/api/users/{id}"
      [] handler = "restStats"    -> "/api/users/stats"
      [] handler = "webIndex"     -> "/"
      [] handler = "webRegister"  -> "/register"
      [] handler = "webDelete"    -> "/delete/{id}"
      [] OTHER                    -> "-"

\* a form handler answers "redirect:/" with a flash attribute
Redirect(handler, flash) == Resp(SRoute(handler), 302, flash)

RefusedFlash == "Registration currently unavailable: database is down"

\* UserService.findByEmail called directly: what the call returns or throws
Called(outcome) ==
    [kind |-> "call", route |-> "UserService.findByEmail", status |-> 0, info |-> outcome]

\* the handler returns its model or body
SResult ==
    CASE sReq.handler = "metrics"   -> Resp("/metrics", 200, "metrics")
      [] sReq.handler = "dashboard" ->
            Resp("/dashboard", 200, IF sReq.dbConnected THEN "Connected" ELSE "Disconnected")
      [] sReq.handler = "webHealth" ->
            Resp("/health", 200, IF sReq.dbConnected THEN "UP" ELSE "DOWN")
      [] sReq.handler = "restRegister" -> Resp("/api/users", 201, "registeredUser")
      [] sReq.handler = "restList"     -> Resp("/api/users", 200, "users")
      [] sReq.handler = "restGet"      -> Resp("/api/users/{id}", 200, "user")
      [] sReq.handler = "restDelete"   -> Resp("/api/users/{id}", 200, "User deleted successfully")
      [] sReq.handler = "restStats"    -> Resp("/api/users/stats", 200, "totalUsers")
      [] sReq.handler = "webRegister"  -> Redirect("webRegister", "User registered successfully!")
      [] sReq.handler = "webDelete"    -> Redirect("webDelete", "User deleted successfully!")
      [] sReq.handler = "findByEmail"  -> Called("Optional.of")

\* an exception no handler catches leaves the controller: the container answers 500
SUncaught(what) == Resp(SRoute(sReq.handler), 500, what)

\* variant: the duplicate is answered like an unreachable database
SRegisterCaughtAsUnavailable ==
    CASE sReq.pc \in {"conflict", "unavailable"} ->
            Resp("/api/users", 503, "Database is unavailable")
      [] OTHER -> Resp("/api/users", 500, "Internal server error")

\* UserRestController.registerUser: the catch blocks
SRegisterCaught ==
    CASE sReq.pc = "conflict"    -> Resp("/api/users", 409, "already exists")
      [] sReq.pc = "unavailable" -> Resp("/api/users", 503, "Database is unavailable")
      [] OTHER                   -> Resp("/api/users", 500, "Internal server error")

\* UserRestController getAllUsers, getUserById, deleteUser, getUserStats:
\* the else branch and the one catch block of each
SRestCaught ==
    CASE sReq.pc = "absent"      -> Resp(SRoute(sReq.handler), 404, "User not found")
      [] sReq.pc = "unavailable" ->
            Resp(SRoute(sReq.handler), 503,
                 IF sReq.handler = "restList" THEN "-" ELSE "Database is unavailable")
      [] OTHER                   -> SUncaught("DataAccessException")

\* UserWebController.registerUser: the early returns and the catch blocks
SWebRegisterFlash ==
    CASE sReq.pc = "invalid"     -> Redirect("webRegister", "Please correct the form errors")
      [] sReq.pc = "refused"     -> Redirect("webRegister", RefusedFlash)
      [] sReq.pc = "conflict"    -> Redirect("webRegister", "already exists")
      [] sReq.pc = "unavailable" -> Redirect("webRegister", RefusedFlash)
      [] OTHER                   -> Redirect("webRegister", "Registration failed. Please try again.")

\* UserWebController.deleteUser: the else branch and the catch blocks
SWebDeleteFlash ==
    CASE sReq.pc = "absent"      -> Redirect("webDelete", "User not found")
      [] sReq.pc = "unavailable" ->
            Redirect("webDelete", "Deletion currently unavailable: database is down")
      [] OTHER                   -> Redirect("webDelete", "Failed to delete user")

\* the index view: the dbDown banner and healthStatus
SIndexPage ==
    Resp("/", 200, (IF sReq.dbDown THEN "dbDown" ELSE "users") \o "/" \o
                   (IF sReq.dbConnected THEN "UP" ELSE "DOWN"))

\* UserService.findByEmail called directly: Optional.empty() or the exception
SCalled ==
    CASE sReq.pc = "absent"      -> Called("Optional.empty")
      [] sReq.pc = "unavailable" -> Called("DatabaseUnavailableException")
      [] OTHER                   -> Called("DataAccessException")

\* the request has reached the end of its handler
SDone ==
    IF sReq.handler = "webIndex"
    THEN sReq.pc \in {"page", "dataAccess"}
    ELSE sReq.pc \in {"result", "unavailable", "dataAccess", "conflict", "saveFailed",
                      "absent", "invalid", "refused"}

SRespond ==
    /\ service = "spring"
    /\ SDone
    /\ output' = CASE sReq.pc = "page"   -> SIndexPage
                   [] sReq.pc = "result" -> SResult
                   [] sReq.handler = "restRegister" -> SRegisterCaught
                   [] sReq.handler \in {"restList", "restGet", "restDelete", "restStats"} ->
                         SRestCaught
                   [] sReq.handler = "webRegister"  -> SWebRegisterFlash
                   [] sReq.handler = "webDelete"    -> SWebDeleteFlash
                   [] sReq.handler = "findByEmail"  -> SCalled
                   [] sReq.pc = "unavailable" -> SUncaught("DatabaseUnavailableException")
                   [] OTHER                   -> SUncaught("DataAccessException")
    /\ sReq' = SIdle
    /\ SFrame
    /\ SStore

Init == NodeInit \/ SpringInit

Next ==
    \/ Start
    \/ StopBegin
    \/ StopFinish
    \/ \E ok \in BOOLEAN : ConnectSettle(ok)
    \/ \E ok \in BOOLEAN : ConnectPingSettle(ok)
    \/ Tick
    \/ \E origin \in OnDemand : StatusRequest(origin)
    \/ \E p \in Racing, outcome \in ProbeOutcomes : ProbeSettle(p, outcome)
    \/ LatePing
    \/ LateTimer
    \/ \E p \in BagToSet(probes) : HealthRespond(p)
    \/ \E p \in BagToSet(probes) : DashboardRespond(p)
    \/ RootPage
    \/ Scrape
    \/ \E hasName \in BOOLEAN, hasEmail \in BOOLEAN : Register(hasName, hasEmail)
    \/ \E ok \in BOOLEAN : InsertSettle(ok)
    \/ \E html \in BOOLEAN : Users(html)
    \/ \E o \in BagToSet(ops), ok \in BOOLEAN : FindSettle(o, ok)
    \/ \E validId \in BOOLEAN : Delete(validId)
    \/ \E result \in DeleteResults : DeleteSettle(result)
    \/ DbToggle
    \/ \E handler \in SHandlers, valid \in BOOLEAN :
          \E email \in ArgsOf(handler) :
             (valid \/ handler = "webRegister") /\ SBegin(handler, email, valid)
    \/ SEnsureDatabaseUp
    \/ SRepository
    \/ SSave
    \/ SDeleteById
    \/ SDashboardProbe
    \/ SWebHealthCheck
    \/ SIndexCheck
    \/ SRegisterCheck
    \/ SDashboardData
    \/ SRespond

Spec == Init /\ [][Next]_vars

----------------------------------------------------------------------------
(* Steps the claims speak about *)

GuardedRoutes == {"/register", "/users", "/users/:id"}

\* the service-unavailable outcome: 503 for JSON callers, the users view with
\* its 'Database unavailable' error for HTML callers
IsUnavailable(out) ==
    /\ out.kind = "http"
    /\ out.route \in GuardedRoutes
    /\ out.status = 503 \/ out.info = "Database unavailable"

\* a guarded request with a well-formed input arrives
GuardedRequest ==
    \/ Register(TRUE, TRUE)
    \/ \E html \in BOOLEAN : Users(html)
    \/ Delete(TRUE)

\* a datastore operation awaited by a guarded handler rejects
OperationFails ==
    \/ InsertSettle(FALSE)
    \/ \E o \in BagToSet(ops) : FindSettle(o, FALSE)
    \/ DeleteSettle("error")

\* a probe completes with a failed check
ProbeFails ==
    \/ \E p \in Racing : ProbeSettle(p, "error") \/ ProbeSettle(p, "timeout")
    \/ mongoClient = "null" /\ (Tick \/ \E origin \in OnDemand : StatusRequest(origin))

ProbeSucceeds == \E p \in Racing : ProbeSettle(p, "ok")

----------------------------------------------------------------------------
(* C1: while dbConnected is false, a guarded request (POST /register with   *)
(* name and email, GET /users, DELETE /users/:id) is answered at once with  *)
(* the service-unavailable outcome and issues no datastore operation.       *)

C1_FailFast ==
    [][ (~dbConnected /\ GuardedRequest) => (IsUnavailable(output') /\ ops' = ops) ]_vars

C1_Witness ==
    /\ output = Resp("/users/:id", 503, Unavailable)
    /\ ~dbConnected
    /\ ops = EmptyBag

----------------------------------------------------------------------------
\* Spring: the registration answers after its repository call failed
SOperationFails ==
    /\ sReq.handler = "restRegister"
    /\ sReq.pc \in {"dataAccess", "saveFailed"}
    /\ SRespond

(* C2, as claimed: when a datastore operation of a guarded handler fails   *)
(* while the tracker is UP, the tracker goes DOWN and the caller receives  *)
(* the service-unavailable outcome.                                        *)

IsFailure(out) ==
    /\ out.kind = "http"
    /\ out.route \in GuardedRoutes
    /\ out.status = 500 \/ out.info = "Failed to fetch users"

(* C2, amended: a failed datastore operation leaves the tracker and the    *)
(* gauge as they were, the caller receives the route's own failure answer  *)
(* (HTTP 500), not service-unavailable, and a guarded request arriving     *)
(* next while the tracker is still UP is attempted on the datastore again. *)

----------------------------------------------------------------------------
(* C3: on-demand probes started while one is in flight share one           *)
(* underlying ping, and their callers obtain the same result.              *)

OnDemandRacing == {p \in Racing : p.origin \in OnDemand}

\* every racing call holds the ping it issued itself (StartProbe)
PingsOf(S) == CopiesOf(S, probes)

C3_Coalescing ==
    /\ OnDemandRacing # {} => PingsOf(OnDemandRacing) = 1
    /\ \A p, q \in Resuming : p.ret = q.ret

----------------------------------------------------------------------------
(* C4: at most one connectivity attempt of a probe, periodic or on-demand, *)
(* is started and not completed at any time.                               *)

C4_AtMostOneInFlight == Pings <= 1

----------------------------------------------------------------------------
(* C5, as claimed: until the first probe or connection attempt completes,  *)
(* the tracker is UP.                                                      *)

\* no request or tick is served before start(), so until connectToDatabase
\* is done no check has completed
NoCheckCompleted == service = "node" /\ server = "none" /\ connPc # "done"

----------------------------------------------------------------------------
(* C6: once a probe has succeeded the tracker is UP, and a registration    *)
(* with name and email arriving while it is UP issues the insert.          *)

C6_Recovery ==
    [][ /\ ProbeSucceeds => dbConnected'
        /\ (dbConnected /\ Register(TRUE, TRUE)) =>
            /\ output' = NoOutput
            /\ BagIn(Op("insertOne", FALSE), ops') ]_vars

----------------------------------------------------------------------------
(* C7: a step emits 'Database connection lost' exactly when it is a failed *)
(* probe that takes the tracker from UP to DOWN; a failed probe while the  *)
(* tracker is already DOWN emits nothing.                                  *)

C7_LostOnce ==
    [][ (output' = Log("lost")) <=> (ProbeFails /\ dbConnected /\ ~dbConnected') ]_vars

C7_Witness == output = Log("lost") /\ ~dbConnected /\ dbConnectionStatus = 0

----------------------------------------------------------------------------
(* C9: the /health response reports the outcome of the request's own probe *)

C9_HealthFresh ==
    [][ \A p \in Resuming :
          HealthRespond(p) =>
            output' = Resp("/health", 200, IF p.ret THEN "connected" ELSE "disconnected") ]_vars

----------------------------------------------------------------------------
\* a request path asks the up/down question: Node reads this.dbConnected,
\* Spring calls DatabaseAvailability.isDatabaseUp()
NodeAsks ==
    \/ \E hasName \in BOOLEAN, hasEmail \in BOOLEAN : Register(hasName, hasEmail)
    \/ \E html \in BOOLEAN : Users(html)
    \/ \E validId \in BOOLEAN : Delete(validId)

SpringAsks ==
    /\ databaseAvailability = "bean"
    /\ SEnsureDatabaseUp \/ SWebHealthCheck \/ SIndexCheck \/ SRegisterCheck \/ SDashboardData

NoAttemptStarted == UNCHANGED <<probes, latePings, lateTimers, connPc>>

(* C8, as claimed: answering the up/down question on a request path starts *)
(* no connectivity attempt against the datastore, in Node and in Spring.   *)

----------------------------------------------------------------------------
StatusDisplays == {"/health", "/dashboard", "/metrics"}

(* C10: every response of a status display (Node /health and /dashboard,   *)
(* Spring /dashboard and /metrics) is a successful one, whatever the state *)
(* of the datastore.                                                       *)

C10_StatusDisplaysSucceed ==
    (output.kind = "http" /\ output.route \in StatusDisplays) => output.status = 200

----------------------------------------------------------------------------
(* C11: the gauge database_connection_status is 1 when dbConnected is true *)
(* and 0 when it is false, in every state, and a scrape reports that       *)
(* value.                                                                  *)

GaugeOf(up) == IF up THEN 1 ELSE 0

C11_GaugeConsistent ==
    /\ [](service = "node" => dbConnectionStatus = GaugeOf(dbConnected))
    /\ [][ Scrape => output' = Resp("/metrics", 200, IF dbConnected THEN "1" ELSE "0") ]_vars

C11_Witness ==
    /\ output = Resp("/metrics", 200, "1")
    /\ dbConnected
    /\ dbConnectionStatus = 1

----------------------------------------------------------------------------
\* the availability check reports DOWN
AvailabilityDown == databaseAvailability = "bean" /\ ~IsDatabaseUp

RepositoryMethods == {"existsByEmail", "save", "findAll", "findById", "findByEmail",
                      "countTotalUsers", "existsById", "deleteById"}

\* the step leaves the UserService method by DatabaseUnavailableException
ThrowsUnavailable ==
    /\ sReq'.pc = "unavailable"
    /\ sReq'.calls = {"UserService." \o ServiceOp(sReq.handler)}

(* C12: in each of registerUser, getAllUsers, findById, findByEmail,       *)
(* getTotalUserCount and deleteUser, when the availability check reports   *)
(* DOWN the call throws DatabaseUnavailableException, and no               *)
(* UserRepository method is invoked by that call, before or after.         *)

C12_GuardUniform ==
    /\ [](sReq.pc = "unavailable" => sReq.calls \cap RepositoryMethods = {})
    /\ [][ /\ (AvailabilityDown /\ SEnsureDatabaseUp) => ThrowsUnavailable
           /\ (sReq.pc = "unavailable" /\ sReq' # sReq) =>
                 /\ SRespond \/ SDashboardData
                 /\ output'.kind = "jdbc" => output'.info \notin RepositoryMethods ]_vars

C12_Witness ==
    /\ output = Called("DatabaseUnavailableException")
    /\ databaseAvailability = "bean"
    /\ ~sDbUp
    /\ sUsers # EmptyBag

----------------------------------------------------------------------------
\* registerUser finds the email in the table: IllegalArgumentException
DuplicateFound ==
    /\ SRepository
    /\ ServiceOp(sReq.handler) = "registerUser"
    /\ sDbUp
    /\ BagIn(sReq.email, sUsers)

(* C13: a registration that fails with the duplicate-email error is        *)
(* answered as a conflict (REST: 409; web form: the message as flash       *)
(* error), never as service-unavailable, and the availability of the       *)
(* database is as before: the check that reported UP still reports UP.     *)

C13_DomainErrorKept ==
    [][ /\ DuplicateFound => (sReq'.pc = "conflict" /\ UNCHANGED <<sDbUp, databaseAvailability>>)
        /\ (sReq.pc = "conflict" /\ sReq' # sReq) =>
              /\ SRespond
              /\ output'.info = "already exists"
              /\ output'.status = IF sReq.handler = "restRegister" THEN 409 ELSE 302
              /\ UNCHANGED <<sDbUp, databaseAvailability>> ]_vars

C13_Witness ==
    /\ output = Resp("/api/users", 409, "already exists")
    /\ sDbUp
    /\ databaseAvailability = "bean"

----------------------------------------------------------------------------
(* C14: once stop() has returned, the interval of start() is cleared, so   *)
(* no tick starts a probe, and no 2 s probe timer remains scheduled.       *)

----------------------------------------------------------------------------
(* Scheduling.  The interval timer fires every 10 s while it is set; the   *)
(* race of a probe is decided within 2 s, by the ping or by its timer;     *)
(* timers fire; a continuation that was queued runs.  Nothing is assumed   *)
(* about Node requests, about stop(), or about a ping nobody waits for.    *)
(* Spring: a request that has entered its handler runs to its response,    *)
(* and the /health view and the / page are visited again and again.        *)

\* a step of the Spring request being handled
SStep ==
    \/ SEnsureDatabaseUp
    \/ SRepository
    \/ SSave
    \/ SDeleteById
    \/ SDashboardProbe
    \/ SWebHealthCheck
    \/ SIndexCheck
    \/ SRegisterCheck
    \/ SDashboardData
    \/ SRespond

Fairness ==
    /\ SF_vars(Tick)
    /\ SF_vars(\E p \in Racing, outcome \in ProbeOutcomes : ProbeSettle(p, outcome))
    /\ SF_vars(LateTimer)
    /\ SF_vars(\E p \in BagToSet(probes) : HealthRespond(p) \/ DashboardRespond(p))
    /\ WF_vars(SStep)
    /\ SF_vars(SBegin("webHealth", "-", TRUE))
    /\ SF_vars(SBegin("webIndex", "-", TRUE))

LiveSpec == Spec /\ Fairness

\* a connectivity attempt, of a probe or of connectToDatabase, fails
AttemptFails ==
    \/ ProbeFails
    \/ ConnectSettle(FALSE)
    \/ ConnectPingSettle(FALSE)

\* a connectivity attempt succeeds
AttemptSucceeds ==
    \/ ProbeSucceeds
    \/ ConnectPingSettle(TRUE)

\* without a client every check throws 'No MongoDB client': a failed check
\* that changes nothing once the tracker is DOWN
HasClient == [](service = "node" /\ mongoClient = "client")

\* start() was called and stop() never is
ProberRuns == <>[]healthCheckInterval

(* C15: while the periodic prober runs, if from some point on no           *)
(* connectivity attempt fails then eventually the tracker is UP for good,  *)
(* if from some point on none succeeds then eventually it is DOWN for      *)
(* good, and only stop() ends the periodic probing.                        *)

C15_Converges ==
    /\ (ProberRuns /\ HasClient /\ <>[][~AttemptFails]_vars) => <>[]dbConnected
    /\ (ProberRuns /\ <>[][~AttemptSucceeds]_vars) => <>[]~dbConnected
    /\ [][(healthCheckInterval /\ ~healthCheckInterval') => StopBegin]_vars

C15_Witness ==
    /\ healthCheckInterval
    /\ dbConnected
    /\ output = Log("restored")
    /\ db = "null"

----------------------------------------------------------------------------
\* the application was started while the database was unreachable
StartedDown == service = "spring" /\ ~sDbUp

(* C16: if the Spring application is started while the database is         *)
(* unreachable and the database later becomes and stays reachable, then    *)
(* the /health view eventually shows status UP and the / page eventually   *)
(* shows the users without the dbDown banner and with health UP.           *)

C16_SpringRecovers ==
    (StartedDown /\ <>[]sDbUp) =>
        /\ <>(output = Resp("/health", 200, "UP"))
        /\ <>(output = Resp("/", 200, "users/UP"))

----------------------------------------------------------------------------
\* no two stored users share an email
EmailsUnique == \A e \in Emails : CopiesIn(e, sUsers) <= 1

(* C18: registerUser with an email that is already stored throws           *)
(* IllegalArgumentException (REST: 409), saves nothing and does not        *)
(* increment the registration counter, whatever the table holds; and       *)
(* registrations made one after the other never store an email twice.      *)

C18_DuplicateRejected ==
    /\ []EmailsUnique
    /\ [][ /\ DuplicateFound => (sReq'.pc = "conflict" /\ SStore)
           /\ (sReq.pc = "conflict" /\ sReq' # sReq) =>
                 /\ SRespond
                 /\ SStore
                 /\ "save" \notin sReq.calls
                 /\ sReq.handler = "restRegister" =>
                       output' = Resp("/api/users", 409, "already exists") ]_vars

C18_Witness ==
    /\ output = Resp("/api/users", 409, "already exists")
    /\ BagCardinality(sUsers) = 1
    /\ sCounter = 1

----------------------------------------------------------------------------
(* C19: when the availability check of a valid POST /register form         *)
(* submission reports DOWN, the handler answers the redirect to / with the *)
(* flash error 'Registration currently unavailable: database is down' and  *)
(* never calls userService.registerUser, so nothing is stored or counted.   *)

C19_WebReadOnly ==
    /\ [](sReq.pc = "refused" => sReq.calls = {})
    /\ [][ /\ (AvailabilityDown /\ SRegisterCheck) => (sReq'.pc = "refused" /\ SStore)
           /\ (sReq.pc = "refused" /\ sReq' # sReq) =>
                 /\ SRespond
                 /\ output' = Resp("/register", 302, RefusedFlash)
                 /\ SStore ]_vars

C19_Witness ==
    /\ sReq.handler = "webRegister"
    /\ sReq.pc = "refused"
    /\ output = Jdbc("getConnection")
    /\ ~sDbUp

----------------------------------------------------------------------------
(* C20: when the insertOne of a POST /register with name and email         *)
(* rejects, the response is HTTP 500 with error 'Registration failed' and  *)
(* the registration counter is not incremented; the tracker being UP       *)
(* changes nothing to it.                                                  *)

C20_InsertFailure ==
    [][ InsertSettle(FALSE) =>
          /\ output' = Resp("/register", 500, "Registration failed")
          /\ userRegistrations' = userRegistrations ]_vars

C20_Witness ==
    /\ output = Resp("/register", 500, "Registration failed")
    /\ dbConnected
    /\ db = "db"
    /\ userRegistrations = 0
    /\ ops = EmptyBag

----------------------------------------------------------------------------
\* POST /register whose body lacks name or email
InvalidRegister ==
    \E hasName \in BOOLEAN, hasEmail \in BOOLEAN :
        ~(hasName /\ hasEmail) /\ Register(hasName, hasEmail)

(* C21: a POST /register whose body lacks name or email is answered 400    *)
(* 'Name and email are required' whether the tracker is UP or DOWN, issues *)
(* no datastore operation and starts no connectivity attempt, and leaves   *)
(* dbConnected, the gauge and the registration counter as they were.       *)

C21_ValidationFirst ==
    [][ InvalidRegister =>
          /\ output' = Resp("/register", 400, "Name and email are required")
          /\ ops' = ops
          /\ NoAttemptStarted
          /\ UNCHANGED <<dbConnected, dbConnectionStatus, userRegistrations>> ]_vars

C21_Witness ==
    /\ output = Resp("/register", 400, "Name and email are required")
    /\ ~dbConnected
    /\ dbConnectionStatus = 0
    /\ ops = EmptyBag

----------------------------------------------------------------------------
\* a call of checkDatabaseConnection() begins: by the interval, or by a route
ProbeCall(origin) == IF origin = "tick" THEN Tick ELSE StatusRequest(origin)

\* the catch block ran: the flag and the gauge read DOWN, 'lost' is logged
\* when the flag was up and nothing otherwise
DownResult ==
    /\ ~dbConnected'
    /\ dbConnectionStatus' = 0
    /\ output' = IF dbConnected THEN Log("lost") ELSE NoOutput

\* the call returned false to the handler awaiting it (a tick awaits nothing)
ReturnsFalse(origin) ==
    origin \in OnDemand =>
        \E via \in {"driver", "timer", "sync"} :
            CopiesIn(ProbeReturned(origin, FALSE, via), probes') =
                CopiesIn(ProbeReturned(origin, FALSE, via), probes) + 1

(* C22: a probe whose ping is not done within 2 s, a probe whose ping       *)
(* errors and a probe without a client all end the same way: the tracker   *)
(* and the gauge read DOWN afterwards, checkDatabaseConnection returns     *)
(* false to its caller, and the caller resumes normally.                   *)

C22_FailuresAlike ==
    [][ /\ \A p \in Racing :
              (ProbeSettle(p, "timeout") \/ ProbeSettle(p, "error")) =>
                  (DownResult /\ ReturnsFalse(p.origin))
        /\ \A origin \in Origins :
              (mongoClient = "null" /\ ProbeCall(origin)) =>
                  (DownResult /\ ReturnsFalse(origin)) ]_vars

C22_Witness ==
    /\ BagIn(ProbeReturned("health", FALSE, "timer"), probes)
    /\ output = Log("lost")
    /\ latePings = 1
    /\ ~dbConnected

----------------------------------------------------------------------------
(* C23: 'restored' is logged only by a step that takes the tracker from    *)
(* DOWN to UP, every probe that does so logs it, and the 'lost' and        *)
(* 'restored' lines of the probes alternate in the log: no 'restored'      *)
(* follows a 'restored', no 'lost' a 'lost', without the other in between. *)

C23_NoticesAlternate ==
    [][ /\ output' = Log("restored") =>
              (~dbConnected /\ dbConnected' /\ lastNotice # "restored")
        /\ output' = Log("lost") =>
              (dbConnected /\ ~dbConnected' /\ lastNotice # "lost")
        /\ (ProbeSucceeds /\ ~dbConnected) => output' = Log("restored") ]_vars

----------------------------------------------------------------------------
(* C24: whenever the startup connection attempt, a periodic probe or an    *)
(* on-demand probe completes, dbConnected becomes the outcome of that      *)
(* check, whichever check was started first, and nothing else changes      *)
(* dbConnected: it is always the outcome of the check that completed last. *)

C24_LastCompletedWins ==
    [][ /\ AttemptSucceeds => dbConnected'
        /\ AttemptFails => ~dbConnected'
        /\ dbConnected' # dbConnected => (AttemptSucceeds \/ AttemptFails) ]_vars

\* the startup attempt, begun before every probe, fails after a probe succeeded
C24_Witness ==
    /\ output = Log("connfailed")
    /\ connPc = "done"
    /\ lastNotice = "restored"
    /\ ~dbConnected
    /\ Racing # {}

----------------------------------------------------------------------------
\* the insertOne of a Node registration, the save of a Spring one, succeeds
InsertSucceeds == InsertSettle(TRUE)

SaveSucceeds == SSave /\ SAccepts(sReq.email)

Count(happens) == IF happens THEN 1 ELSE 0

\* the answers of a registration that succeeded
Registered == {Resp("/register", 200, "success"),
               Resp("/api/users", 201, "registeredUser"),
               Redirect("webRegister", "User registered successfully!")}

(* C25: a step increments user_registrations_total, by one, exactly when   *)
(* the insert (Node) or the save (Spring) of a registration succeeds in    *)
(* that step, so every stored user was counted; a registration that        *)
(* succeeded is answered as registered, so a request answered 400, 409,    *)
(* 503 or 500 has not incremented the counter.                             *)

C25_CountsSuccesses ==
    /\ [](BagCardinality(sUsers) <= sCounter)
    /\ [][ /\ userRegistrations' = userRegistrations + Count(InsertSucceeds)
           /\ sCounter' = sCounter + Count(SaveSucceeds)
           /\ InsertSucceeds => output' \in Registered
           /\ SaveSucceeds => (sReq'.pc = "result" /\ sUsers' = sUsers (+) SetToBag({sReq.email}))
           /\ (SRespond /\ sReq.handler \in Registering) =>
                 (sReq.pc = "result" <=> output' \in Registered)
           /\ (output'.kind = "http" /\ output'.status \in {400, 409, 503, 500}) =>
                 /\ UNCHANGED <<userRegistrations, sCounter>>
                 /\ sReq.pc # "result" ]_vars

C25_Witness ==
    /\ sReq.handler = "restRegister"
    /\ sReq.pc = "saveFailed"
    /\ output = Jdbc("save")
    /\ sCounter = 1
    /\ BagCardinality(sUsers) = 1

----------------------------------------------------------------------------
\* the web views that ask the availability component themselves
WebViews == {"webIndex", "webHealth"}

(* C26: when UserWebController holds no DatabaseAvailability (null), GET / *)
(* renders dbDown = true with the empty user list and health DOWN and      *)
(* never calls userService.getAllUsers, and GET /health renders status     *)
(* DOWN, dbUp = false; both whether or not the database is reachable, and  *)
(* without opening a connection to find out.                               *)

C26_MissingMeansDown ==
    /\ [](databaseAvailability = "null" /\ sReq.handler \in WebViews => sReq.calls = {})
    /\ [][ databaseAvailability = "null" =>
             /\ SIndexCheck => (sReq'.pc = "down" /\ output' = NoOutput)
             /\ (SWebHealthCheck \/ SDashboardData) =>
                   (~sReq'.dbConnected /\ output' = NoOutput)
             /\ (SRespond /\ sReq.handler = "webIndex") =>
                   output' = Resp("/", 200, "dbDown/DOWN")
             /\ (SRespond /\ sReq.handler = "webHealth") =>
                   output' = Resp("/health", 200, "DOWN") ]_vars

C26_Witness ==
    /\ output = Resp("/", 200, "dbDown/DOWN")
    /\ databaseAvailability = "null"
    /\ sDbUp
    /\ sUsers # EmptyBag

----------------------------------------------------------------------------
(* C27: whenever dbConnected is true the handle this.db is set, so that a  *)
(* guarded handler admitted by the availability check can issue its        *)
(* datastore call.                                                         *)

C27_HandleWhenUp == (service = "node" /\ dbConnected) => CanIssue

----------------------------------------------------------------------------
\* the flag, the gauge and the log of notifications are as before
TrackerUntouched ==
    /\ UNCHANGED <<dbConnected, dbConnectionStatus, lastNotice>>
    /\ output' \notin {Log("lost"), Log("restored")}

\* a call of checkDatabaseConnection() reaches its await with a ping issued
ProbeStarts ==
    /\ mongoClient = "client"
    /\ \E origin \in Origins : ProbeCall(origin)

(* C28: the ping of a probe that already timed out, when it completes,     *)
(* changes neither dbConnected nor the gauge and logs no notification,     *)
(* and no probe returns because of it; a probe touches the tracker in one  *)
(* step only, the one that decides its race: a step that touches the      *)
(* tracker is neither a late ping, nor a late timer, nor the start of a    *)
(* probe, and when it changes the flag or the gauge outside a connection   *)
(* attempt, one call stops racing in that very step.                       *)

C28_LatePingIgnored ==
    [][ /\ LatePing => probes' = probes
        /\ ~TrackerUntouched =>
              /\ ~(LatePing \/ LateTimer \/ ProbeStarts)
              /\ ( /\ mongoClient = "client"
                   /\ connPc' = connPc
                   /\ ~UNCHANGED <<dbConnected, dbConnectionStatus>> ) =>
                       RacingCount' = RacingCount - 1 ]_vars

\* the ping of a timed-out probe is still outstanding after a later probe
\* has restored the tracker
C28_Witness ==
    /\ latePings = 1
    /\ dbConnected
    /\ lastNotice = "restored"
    /\ Racing = {}

----------------------------------------------------------------------------
(* C29: the model rendered for one GET / never holds dbDown = true         *)
(* together with dbConnected = true (healthStatus 'UP'), also when the     *)
(* database comes or goes between the availability checks of the request.  *)

C29_PageConsistent ==
    /\ (sReq.handler = "webIndex" /\ sReq.pc = "page") => ~(sReq.dbDown /\ sReq.dbConnected)
    /\ output # Resp("/", 200, "dbDown/UP")

----------------------------------------------------------------------------
(* Spring service: two servlet threads.  UserService is a singleton and    *)
(* takes no lock: while the request above is handled, another thread runs  *)
(* UserService.registerUser, statement by statement.                       *)

SOtherFrame ==
    UNCHANGED <<service, nodeVars, sDbUp, databaseAvailability, sReq, sEmailUnique>>

\* the other thread enters registerUser(user)
SOtherBegin(email) ==
    /\ service = "spring"
    /\ sOther.pc = "idle"
    /\ sCounter < MaxSaves
    /\ sOther' = [pc |-> "ensure", email |-> email]
    /\ output' = NoOutput
    /\ SOtherFrame
    /\ SStore

\* ensureDatabaseUp()
SOtherEnsureDatabaseUp ==
    /\ service = "spring"
    /\ sOther.pc = "ensure"
    /\ IF databaseAvailability = "null"
       THEN /\ sOther' = [sOther EXCEPT !.pc = "repository"]
            /\ output' = NoOutput
       ELSE /\ sOther' = [sOther EXCEPT !.pc = IF IsDatabaseUp THEN "repository"
                                                           ELSE "unavailable"]
            /\ output' = Jdbc("getConnection")
    /\ SOtherFrame
    /\ SStore

\* userRepository.existsByEmail(user.getEmail())
SOtherExistsByEmail ==
    /\ service = "spring"
    /\ sOther.pc = "repository"
    /\ output' = Jdbc("existsByEmail")
    /\ sOther' = [sOther EXCEPT
                    !.pc = IF sDbUp
                           THEN AfterFirstCall("registerUser", BagIn(sOther.email, sUsers))
                           ELSE "dataAccess"]
    /\ SOtherFrame
    /\ SStore

\* userRepository.save(user) and userRegistrationCounter.increment()
SOtherSave ==
    /\ service = "spring"
    /\ sOther.pc = "save"
    /\ output' = Jdbc("save")
    /\ IF SAccepts(sOther.email)
       THEN /\ sUsers' = sUsers (+) SetToBag({sOther.email})
            /\ sCounter' = sCounter + 1
            /\ sOther' = [sOther EXCEPT !.pc = "result"]
       ELSE /\ SStore
            /\ sOther' = [sOther EXCEPT !.pc = "saveFailed"]
    /\ SOtherFrame

\* what registerUser returns or throws
SOtherOutcome ==
    CASE sOther.pc = "result"      -> "savedUser"
      [] sOther.pc = "conflict"    -> "IllegalArgumentException"
      [] sOther.pc = "unavailable" -> "DatabaseUnavailableException"
      [] sOther.pc = "saveFailed"  -> "RuntimeException"
      [] OTHER                     -> "DataAccessException"

\* the call leaves registerUser
SOtherReturn ==
    /\ service = "spring"
    /\ sOther.pc \in {"result", "conflict", "unavailable", "saveFailed", "dataAccess"}
    /\ output' = [kind |-> "call", route |-> "UserService.registerUser", status |-> 0,
                  info |-> SOtherOutcome]
    /\ sOther' = SOtherIdle
    /\ SOtherFrame
    /\ SStore

ConcNext ==
    \/ Next
    \/ \E email \in Emails : SOtherBegin(email)
    \/ SOtherEnsureDatabaseUp
    \/ SOtherExistsByEmail
    \/ SOtherSave
    \/ SOtherReturn

ConcSpec == Init /\ [][ConcNext]_vars

----------------------------------------------------------------------------
\* a call executes save(user) while the database is reachable and a row with
\* its email is there: stored, since its own existsByEmail, by the other call
SavesSecond ==
    \/ SSave /\ sDbUp /\ BagIn(sReq.email, sUsers)
    \/ SOtherSave /\ sDbUp /\ BagIn(sOther.email, sUsers)

(* C30: of two registerUser calls with the same email that run at the same *)
(* time while the database is up, at most one stores a user and increments *)
(* the counter, so no email is stored twice; the other call ends with the  *)
(* duplicate-email IllegalArgumentException.                               *)

C30_OneRegistrationWins ==
    /\ [](\A e \in Emails : CopiesIn(e, sUsers) <= 1)
    /\ [][ SavesSecond =>
             /\ SStore
             /\ sReq'.pc = "conflict" \/ sOther'.pc = "conflict" ]_vars

====
